---------------------------- MODULE Spec2Model ----------------------------
(***************************************************************************)
(* Model of the CameraCapture component (camera acquisition, 500 ms        *)
(* sampling interval, Tesseract worker life cycle, watchdog, token         *)
(* matching, submission to the schedule API, calendar modal).              *)
(*                                                                         *)
(* Strings are sequences of one-character strings, so that split,          *)
(* replace and the regular expression are computed character by character. *)
(* React closures are modelled by the values they capture: every function  *)
(* of a render reads the hasValidResult / isFrontCamera of THAT render.    *)
(***************************************************************************)
EXTENDS Integers, Sequences, FiniteSets, Bags, TLC

\* ------------------------------------------------------------------ bounds
MaxStreams == 2      \* getUserMedia requests issued in a run
MaxWorkers == 2      \* createWorker calls issued in a run (Spec)
MaxWatchdogWorkers == 3  \* createWorker calls issued in a run (SpecWatchdog)
MaxTasks == 2        \* OCR calls (worker set-up, recognize) in flight at once
MaxPosts == 1        \* HTTP POSTs in flight at once
MaxIntervals == 2    \* sampling intervals active at once
MaxAttempts == 1     \* analysis attempts between two counter resets (Spec)
MaxCount == 22       \* analysis attempts between two counter resets (SpecWatchdog)
TimeStep == 10000    \* granularity of the clock, in ms
MaxClock == 20000    \* last clock value, in ms
MaxDigits == 3       \* digits of a line put to the test (SpecFormat)

\* ------------------------------------------------------- program constants
WatchdogMs == 10000
WatchdogAttempts == 20
NullId == 0          \* getRoomId's null (as falsy as the code's `!id` needs)

\* ----------------------------------------------------------------- strings
Digits == {"0", "1", "2", "3", "4", "5", "6", "7", "8", "9"}
Whitespace == {" ", "\t", "\n", "\r"}
EmptyText == << >>

\* String.prototype.split('\n'): the lines of text, at least one.
RECURSIVE SplitFrom(_, _, _)
SplitFrom(text, i, cur) ==
    IF i > Len(text) THEN <<cur>>
    ELSE IF text[i] = "\n" THEN <<cur>> \o SplitFrom(text, i + 1, << >>)
    ELSE SplitFrom(text, i + 1, Append(cur, text[i]))

Split(text) == SplitFrom(text, 1, << >>)

\* .replace(/[oO]/g, '0')
ReplaceO(text) ==
    [i \in 1..Len(text) |-> IF text[i] \in {"o", "O"} THEN "0" ELSE text[i]]

\* .replace(/\s+/g, '')
StripWhitespace(text) == SelectSeq(text, LAMBDA c : c \notin Whitespace)

\* .trim()
RECURSIVE TrimLeft(_)
TrimLeft(text) ==
    IF text # << >> /\ Head(text) \in Whitespace THEN TrimLeft(Tail(text)) ELSE text

RECURSIVE TrimRight(_)
TrimRight(text) ==
    IF text # << >> /\ text[Len(text)] \in Whitespace
    THEN TrimRight(SubSeq(text, 1, Len(text) - 1)) ELSE text

Trim(text) == TrimRight(TrimLeft(text))

preprocessText(text) == Trim(StripWhitespace(ReplaceO(text)))

\* mutant: up to three digits are accepted
isValidFormatThreeDigits(text) ==
    /\ Len(text) \in {5, 6, 7}
    /\ text[1] = "M"
    /\ \A i \in 2..(Len(text) - 3) : text[i] \in Digits
    /\ text[Len(text) - 2] = "-"
    /\ text[Len(text) - 1] = "T"
    /\ text[Len(text)] \in {"D", "P"}

\* /^M[0-9]{1,2}-T[DP]$/.test(text)
isValidFormat(text) ==
    /\ Len(text) \in {5, 6}
    /\ text[1] = "M"
    /\ \A i \in 2..(Len(text) - 3) : text[i] \in Digits
    /\ text[Len(text) - 2] = "-"
    /\ text[Len(text) - 1] = "T"
    /\ text[Len(text)] \in {"D", "P"}

Token(d1, d2, k) == <<"M", d1, d2, "-", "T", k>>

getRoomId(text) ==
    CASE text = Token("0", "1", "D") -> 12673
      [] text = Token("0", "2", "D") -> 12981
      [] text = Token("0", "3", "P") -> 19393
      [] text = Token("0", "5", "P") -> 12680
      [] text = Token("0", "6", "P") -> 43372
      [] text = Token("0", "7", "P") -> 12677
      [] text = Token("0", "9", "P") -> 12678
      [] text = Token("1", "0", "P") -> 12679
      [] text = Token("1", "1", "D") -> 12674
      [] text = Token("1", "3", "P") -> 62575
      [] text = Token("1", "4", "D") -> 13927
      [] OTHER -> NullId

\* text.endsWith('-TP')
EndsWithTP(text) ==
    /\ Len(text) >= 3
    /\ SubSeq(text, Len(text) - 2, Len(text)) = <<"-", "T", "P">>

ColorTP == <<"#", "F", "F", "F", "F", "B", "F">>
ColorOther == <<"#", "F", "F", "D", "7", "B", "0">>

\* mutant: the two colours are exchanged
PayloadColorsSwapped(text) ==
    [salle |-> << [id |-> getRoomId(text),
                   title |-> text,
                   eventColor |-> IF EndsWithTP(text) THEN ColorOther ELSE ColorTP] >>]

\* the payload sendToApi builds: {salle: [{id, title, eventColor}]}
Payload(text) ==
    [salle |-> << [id |-> getRoomId(text),
                   title |-> text,
                   eventColor |-> IF EndsWithTP(text) THEN ColorTP ELSE ColorOther] >>]

\* the for-loop of analyzeFrame over the lines: the first processed line that
\* is valid, or EmptyText when the loop ends without a return
\* mutant: the scan goes on after a match, so the last matching line wins
RECURSIVE ScanLinesLast(_, _)
ScanLinesLast(lines, i) ==
    IF i > Len(lines) THEN EmptyText
    ELSE IF /\ isValidFormat(preprocessText(lines[i]))
            /\ ScanLinesLast(lines, i + 1) = EmptyText
         THEN preprocessText(lines[i])
         ELSE ScanLinesLast(lines, i + 1)

RECURSIVE ScanLines(_, _)
ScanLines(lines, i) ==
    IF i > Len(lines) THEN EmptyText
    ELSE IF isValidFormat(preprocessText(lines[i])) THEN preprocessText(lines[i])
    ELSE ScanLines(lines, i + 1)

\* what analyzeFrame extracts from result.data.text (EmptyText: no line matched)
Extract(text) == ScanLines(Split(text), 1)

\* mutant: the attempt threshold is reached one attempt early
WatchdogDueAtThreshold(elapsed, count) ==
    elapsed > WatchdogMs /\ count >= WatchdogAttempts

\* timeSinceLastSuccess > 10000 && analysisCountRef.current > 20
WatchdogDue(elapsed, count) == elapsed > WatchdogMs /\ count > WatchdogAttempts

\* --------------------------------------------------------------- the inputs
\* what the OCR engine may return for a frame (result.data.text)
TextNoiseM03 ==
    <<"n", "o", "i", "s", "e", "\n", "M", "0", "3", "-", "T", "P", "\n",
      "m", "o", "r", "e", " ", "n", "o", "i", "s", "e">>
TextM11 == <<"M", "1", "1", "-", "T", "D">>
TextTwoTokens ==
    <<"M", "0", "O", "-", "T", "P", "\n", "M", "0", "3", "-", "T", "P">>
TextNoise == <<"n", "o", "i", "s", "e">>

OCRTexts == <<TextNoiseM03, TextM11, TextTwoTokens, TextNoise>>

\* 'Erreur d\'acces a la camera' (the accented letters written unaccented)
ErrorText ==
    <<"E", "r", "r", "e", "u", "r", " ", "d", "'", "a", "c", "c", "e", "s", " ",
      "a", " ", "l", "a", " ", "c", "a", "m", "e", "r", "a">>

NoDay == [kind |-> "null", room |-> EmptyText]
WorkerOps == {"lang", "init", "params"}

\* -------------------------------------------------------------------- state
VARIABLES
    \* useState
    extractedText, isAnalyzing, hasValidResult, isFrontCamera,
    day, isCalendarOpen, calendarEvents, isLoading,
    \* useRef
    workerRef,          \* index into workers, 0 for null
    streamRef,          \* index into streams, 0 for null
    lastSuccessRef, analysisCountRef,
    \* the component: "constructed", "mounted" (videoRef/canvasRef set), "unmounted"
    phase,
    \* the environment
    now,                \* Date.now()
    workers,            \* every worker created: [ops: set-up calls done, dead]
    streams,            \* every stream acquired: TRUE while its tracks are live
    gum,                \* getUserMedia requests pending: [front, hv]
    timers,             \* setTimeout callbacks pending: [fn, hv, front]
    intervals,          \* setInterval timers active: [hv] (analyzeLoop's closure)
    tasks,              \* OCR calls pending: [k, w, origin, hv, t]
    posts,              \* Http.post calls pending: the payloads
    \* history
    sendArg,            \* argument of the latest sendToApi call
    watchdogFired,      \* watchdog reinitializations since the latest recognize call
    \* one line of a recognized text, and what the scan of analyzeFrame found it
    line,
    lineVerdict         \* "none" before the test, then "valid" or "invalid"

vars ==
    <<extractedText, isAnalyzing, hasValidResult, isFrontCamera, day,
      isCalendarOpen, calendarEvents, isLoading, workerRef, streamRef,
      lastSuccessRef, analysisCountRef, phase, now, workers, streams, gum,
      timers, intervals, tasks, posts, sendArg, watchdogFired, line,
      lineVerdict>>

componentVars ==
    <<extractedText, isAnalyzing, hasValidResult, isFrontCamera, day,
      isCalendarOpen, calendarEvents, isLoading, workerRef, streamRef,
      lastSuccessRef, analysisCountRef, phase, now, workers, streams, gum,
      timers, intervals, tasks, posts, sendArg, watchdogFired>>
formatVars == <<line, lineVerdict>>

submitVars == <<isLoading, posts, sendArg>>
modalVars == <<day, isCalendarOpen, calendarEvents>>
cameraVars == <<streamRef, streams, gum>>
ocrVars ==
    <<workerRef, workers, tasks, analysisCountRef, lastSuccessRef, watchdogFired>>

Constructed ==
    /\ extractedText = EmptyText
    /\ isAnalyzing = FALSE
    /\ hasValidResult = FALSE
    /\ isFrontCamera = FALSE
    /\ day = NoDay
    /\ isCalendarOpen = FALSE
    /\ calendarEvents = EmptyText
    /\ isLoading = FALSE
    /\ workerRef = 0
    /\ streamRef = 0
    /\ now = 0
    /\ lastSuccessRef = 0
    /\ analysisCountRef = 0
    /\ phase = "constructed"
    /\ workers = << >>
    /\ streams = << >>
    /\ gum = EmptyBag
    /\ timers = EmptyBag
    /\ intervals = EmptyBag
    /\ tasks = EmptyBag
    /\ posts = EmptyBag
    /\ sendArg = EmptyText
    /\ watchdogFired = 0

Init ==
    /\ Constructed
    /\ line = EmptyText
    /\ lineVerdict = "none"

One(e) == SetToBag({e})
Mounted == phase = "mounted"
Ready(w) == workers[w].ops = WorkerOps /\ ~workers[w].dead

Task(k, w, origin, hv, t) == [k |-> k, w |-> w, origin |-> origin, hv |-> hv, t |-> t]

RECURSIVE CopiesOf(_, _)
CopiesOf(S, b) ==
    IF S = {} THEN 0
    ELSE LET x == CHOOSE y \in S : TRUE IN CopiesIn(x, b) + CopiesOf(S \ {x}, b)

\* the calls of createWorker that the pending tasks of tk have made or will make
Creating(tk) == CopiesOf({x \in BagToSet(tk) : x.k \in {"term", "create"}}, tk)

\* ------------------------------------------------------------- submission
\* mutant: the early return on a null identifier is missing
SendToApiNoGuard(text) ==
    /\ isLoading' = TRUE
    /\ sendArg' = text
    /\ BagCardinality(posts) < MaxPosts
    /\ posts' = posts (+) One(Payload(text))

\* sendToApi(text), up to its await of Http.post
SendToApi(text) ==
    /\ isLoading' = TRUE
    /\ sendArg' = text
    /\ IF getRoomId(text) = NullId
       THEN posts' = posts
       ELSE /\ BagCardinality(posts) < MaxPosts
            /\ posts' = posts (+) One(Payload(text))

\* setExtractedText(text), and the effect on [extractedText] of the render
\* that follows: it runs when the value changed, and calls sendToApi when the
\* new value is not empty
SetExtractedText(text) ==
    /\ extractedText' = text
    /\ IF text # extractedText /\ text # EmptyText
       THEN SendToApi(text)
       ELSE UNCHANGED submitVars

\* what Http.post can do: reject, or resolve with a response of a success or
\* an error status whose data is empty, an object or an array
Responses ==
    {[resolved |-> FALSE, ok |-> FALSE, body |-> "empty"]}
    \cup [resolved : {TRUE}, ok : BOOLEAN, body : {"empty", "object", "array"}]

\* the continuation of sendToApi after Http.post of payload p ends with r:
\* response.status is not looked at
HttpReturns(p, r) ==
    LET room == p.salle[1].title
        data == r.resolved /\ r.body # "empty"
    IN  /\ posts' = posts (-) One(p)
        /\ IF Mounted /\ data
           THEN day' = [kind |-> r.body, room |-> room]
           ELSE UNCHANGED day
        /\ IF Mounted /\ data /\ r.body = "array"
           THEN /\ calendarEvents' = room
                /\ isCalendarOpen' = TRUE
                /\ isLoading' = FALSE
           ELSE UNCHANGED <<calendarEvents, isCalendarOpen, isLoading>>
        /\ UNCHANGED <<formatVars, extractedText, isAnalyzing, hasValidResult,
                       isFrontCamera, sendArg, phase, now, cameraVars, timers,
                       intervals, ocrVars>>

HttpResponse ==
    \E p \in BagToSet(posts), r \in Responses : HttpReturns(p, r)

\* ------------------------------------------------------------------ camera
\* startAnalysis of a render whose hasValidResult is hv
StartAnalysis(hv) ==
    IF hv
    THEN UNCHANGED <<isAnalyzing, intervals>>
    ELSE /\ BagCardinality(intervals) < MaxIntervals
         /\ isAnalyzing' = IF Mounted THEN TRUE ELSE isAnalyzing
         /\ intervals' = intervals (+) One([hv |-> hv])

\* stopCurrentStream
StopCurrentStream ==
    IF streamRef # 0 THEN [streams EXCEPT ![streamRef] = FALSE] ELSE streams

\* mutant: the current stream is not stopped before the request
InitializeCameraNoStop(hv, front) ==
    /\ gum' = gum (+) One([front |-> front, hv |-> hv])
    /\ UNCHANGED <<streamRef, streams>>

\* initializeCamera of a render (hv, front), up to its await of getUserMedia
InitializeCamera(hv, front) ==
    /\ streams' = StopCurrentStream
    /\ gum' = gum (+) One([front |-> front, hv |-> hv])
    /\ UNCHANGED streamRef

\* the camera requests made and not failed, those of pending timeouts included
Requested ==
    Len(streams) + BagCardinality(gum)
    + CopiesOf({x \in BagToSet(timers) : x.fn = "initializeCamera"}, timers)

\* the continuation of initializeCamera when getUserMedia resolves
GetUserMediaResolves ==
    \E r \in BagToSet(gum) :
        /\ gum' = gum (-) One(r)
        /\ streams' = Append(streams, TRUE)
        /\ streamRef' = Len(streams) + 1
        /\ IF Mounted THEN StartAnalysis(r.hv) ELSE UNCHANGED <<isAnalyzing, intervals>>
        /\ UNCHANGED <<formatVars,
                       extractedText, hasValidResult, isFrontCamera, modalVars,
                       submitVars, phase, now, timers, ocrVars>>

\* the catch of initializeCamera when getUserMedia rejects
GetUserMediaRejects ==
    \E r \in BagToSet(gum) :
        /\ gum' = gum (-) One(r)
        /\ IF Mounted THEN SetExtractedText(ErrorText)
           ELSE UNCHANGED <<extractedText, submitVars>>
        /\ UNCHANGED <<formatVars,
                       isAnalyzing, hasValidResult, isFrontCamera, modalVars,
                       phase, now, streamRef, streams, timers, intervals,
                       ocrVars>>

\* mutant: the extracted text is not cleared
ToggleCameraKeepsText ==
    /\ Mounted
    /\ Requested < MaxStreams
    /\ isFrontCamera' = ~isFrontCamera
    /\ hasValidResult' = FALSE
    /\ isAnalyzing' = FALSE
    /\ timers' = timers (+) One([fn |-> "initializeCamera", hv |-> hasValidResult,
                                 front |-> isFrontCamera])
    /\ UNCHANGED <<formatVars,
                   extractedText, submitVars, modalVars, phase, now, cameraVars,
                   intervals, ocrVars>>

ToggleCamera ==
    /\ Mounted
    /\ Requested < MaxStreams
    /\ isFrontCamera' = ~isFrontCamera
    /\ hasValidResult' = FALSE
    /\ SetExtractedText(EmptyText)
    /\ isAnalyzing' = FALSE
    /\ timers' = timers (+) One([fn |-> "initializeCamera", hv |-> hasValidResult,
                                 front |-> isFrontCamera])
    /\ UNCHANGED <<formatVars,
                   modalVars, phase, now, cameraVars, intervals, ocrVars>>

\* --------------------------------------------------------------------- OCR
\* reinitializeWorker, up to its first await: terminate() of the current
\* worker when there is one, createWorker() otherwise
ReinitializeWorker(tk, wk, wref, origin, hv, cap) ==
    /\ BagCardinality(tk) < MaxTasks
    /\ Len(wk) + Creating(tk) < cap.workers
    /\ IF wref # 0
       THEN /\ workers' = [wk EXCEPT ![wref].dead = TRUE]
            /\ tasks' = tk (+) One(Task("term", wref, origin, hv, 0))
       ELSE /\ workers' = wk
            /\ tasks' = tk (+) One(Task("create", 0, origin, hv, 0))

\* mutant: an attempt made while a recognize call is pending is counted and
\* dropped
AnalyzeFrameExclusive(tk, wk, wref, cnt, last, hv, cap) ==
    /\ lastSuccessRef' = last
    /\ IF ~Mounted \/ wref = 0 \/ hv
       THEN /\ tasks' = tk
            /\ workers' = wk
            /\ analysisCountRef' = cnt
            /\ UNCHANGED watchdogFired
       ELSE /\ cnt < cap.attempts
            /\ analysisCountRef' = cnt + 1
            /\ IF WatchdogDue(now - last, cnt + 1)
               THEN /\ ReinitializeWorker(tk, wk, wref, "watchdog", hv, cap)
                    /\ watchdogFired' = watchdogFired + 1
               ELSE IF \E x \in BagToSet(tk) : x.k = "rec"
               THEN /\ tasks' = tk
                    /\ workers' = wk
                    /\ UNCHANGED watchdogFired
               ELSE /\ BagCardinality(tk) < MaxTasks
                    /\ tasks' = tk (+) One(Task("rec", wref, "tick", hv, now))
                    /\ workers' = wk
                    /\ watchdogFired' = 0

\* captureFrame() and, with a frame, analyzeFrame(frame) up to its await, in a
\* closure whose hasValidResult is hv; tk, wk, wref, cnt, last are the tasks,
\* workers, workerRef, analysisCountRef and lastSuccessRef it starts from;
\* cap bounds the attempts and the workers of the run
AnalyzeFrame(tk, wk, wref, cnt, last, hv, cap) ==
    /\ lastSuccessRef' = last
    /\ IF ~Mounted \/ wref = 0 \/ hv
       THEN /\ tasks' = tk
            /\ workers' = wk
            /\ analysisCountRef' = cnt
            /\ UNCHANGED watchdogFired
       ELSE /\ cnt < cap.attempts
            /\ analysisCountRef' = cnt + 1
            /\ IF WatchdogDue(now - last, cnt + 1)
               THEN /\ ReinitializeWorker(tk, wk, wref, "watchdog", hv, cap)
                    /\ watchdogFired' = watchdogFired + 1
               ELSE /\ BagCardinality(tk) < MaxTasks
                    /\ tasks' = tk (+) One(Task("rec", wref, "tick", hv, now))
                    /\ workers' = wk
                    /\ watchdogFired' = 0

\* what the caller of reinitializeWorker does when it returns
Resume(tk, wk, wref, cnt, last, task, cap) ==
    CASE task.origin = "loop" ->
            /\ AnalyzeFrame(tk, wk, wref, cnt, last, task.hv, cap)
            /\ UNCHANGED <<timers, intervals, isAnalyzing>>
      [] task.origin = "reset" ->
            /\ tasks' = tk /\ workers' = wk
            /\ analysisCountRef' = cnt /\ lastSuccessRef' = last
            /\ timers' = timers (+) One([fn |-> "startAnalysis", hv |-> task.hv,
                                         front |-> FALSE])
            /\ UNCHANGED <<watchdogFired, intervals, isAnalyzing>>
      [] task.origin = "close" ->
            /\ tasks' = tk /\ workers' = wk
            /\ analysisCountRef' = cnt /\ lastSuccessRef' = last
            /\ StartAnalysis(task.hv)
            /\ UNCHANGED <<watchdogFired, timers>>
      [] OTHER ->
            /\ tasks' = tk /\ workers' = wk
            /\ analysisCountRef' = cnt /\ lastSuccessRef' = last
            /\ UNCHANGED <<watchdogFired, timers, intervals, isAnalyzing>>

\* one tick of an interval: analyzeLoop
AnalyzeLoop(cap) ==
    \E iv \in BagToSet(intervals) :
        /\ IF iv.hv
           THEN /\ intervals' = intervals (-) One(iv)
                /\ UNCHANGED ocrVars
           ELSE /\ UNCHANGED intervals
                /\ IF workerRef = 0
                   THEN /\ ReinitializeWorker(tasks, workers, workerRef, "loop", iv.hv, cap)
                        /\ UNCHANGED <<analysisCountRef, lastSuccessRef, watchdogFired>>
                   ELSE AnalyzeFrame(tasks, workers, workerRef, analysisCountRef,
                                     lastSuccessRef, iv.hv, cap)
                /\ UNCHANGED workerRef
        /\ UNCHANGED <<formatVars,
                       extractedText, isAnalyzing, hasValidResult, isFrontCamera,
                       modalVars, submitVars, phase, now, cameraVars, timers>>

\* await workerRef.current.terminate() returns: createWorker() is called
TerminateDone ==
    \E task \in BagToSet(tasks) :
        /\ task.k = "term"
        /\ tasks' = (tasks (-) One(task)) (+) One([task EXCEPT !.k = "create", !.w = 0])
        /\ UNCHANGED <<formatVars,
                       extractedText, isAnalyzing, hasValidResult, isFrontCamera,
                       modalVars, submitVars, phase, now, cameraVars, timers,
                       intervals, workerRef, workers, analysisCountRef,
                       lastSuccessRef, watchdogFired>>

\* await createWorker() returns: workerRef.current is the new worker, and
\* workerRef.current.loadLanguage is called
CreateWorkerDone ==
    \E task \in BagToSet(tasks) :
        /\ task.k = "create"
        /\ workers' = Append(workers, [ops |-> {}, dead |-> FALSE])
        /\ workerRef' = Len(workers) + 1
        /\ tasks' = (tasks (-) One(task))
                    (+) One([task EXCEPT !.k = "lang", !.w = Len(workers) + 1])
        /\ UNCHANGED <<formatVars,
                       extractedText, isAnalyzing, hasValidResult, isFrontCamera,
                       modalVars, submitVars, phase, now, cameraVars, timers,
                       intervals, analysisCountRef, lastSuccessRef, watchdogFired>>

\* await loadLanguage / initialize returns: the next call is made on the
\* worker workerRef.current holds by then
SetupDone ==
    \E task \in BagToSet(tasks) :
        /\ task.k \in {"lang", "init"}
        /\ ~workers[task.w].dead
        /\ workers' = [workers EXCEPT ![task.w].ops = @ \cup {task.k}]
        /\ tasks' = (tasks (-) One(task))
                    (+) One([task EXCEPT !.k = IF task.k = "lang" THEN "init" ELSE "params",
                                         !.w = workerRef])
        /\ UNCHANGED <<formatVars,
                       extractedText, isAnalyzing, hasValidResult, isFrontCamera,
                       modalVars, submitVars, phase, now, cameraVars, timers,
                       intervals, workerRef, analysisCountRef, lastSuccessRef,
                       watchdogFired>>

\* await setParameters returns for task: initializeTesseract ends;
\* reinitializeWorker resets lastSuccessRef and analysisCountRef and returns to
\* its caller
ParametersReturn(task, cap) ==
    /\ task.k = "params"
    /\ ~workers[task.w].dead
    /\ LET tk == tasks (-) One(task)
           wk == [workers EXCEPT ![task.w].ops = @ \cup {task.k}]
       IN  IF task.origin = "mount"
           THEN Resume(tk, wk, workerRef, analysisCountRef, lastSuccessRef, task, cap)
           ELSE Resume(tk, wk, workerRef, 0, now, task, cap)
    /\ UNCHANGED <<formatVars,
                   extractedText, hasValidResult, isFrontCamera, modalVars,
                   submitVars, phase, now, cameraVars, workerRef>>

ParametersDone(cap) == \E task \in BagToSet(tasks) : ParametersReturn(task, cap)

\* createWorker or a set-up call rejects: the catch logs, and
\* reinitializeWorker returns to its caller with the counters as they are
SetupFails(cap) ==
    \E task \in BagToSet(tasks) :
        /\ task.k \in {"create", "lang", "init", "params"}
        /\ Resume(tasks (-) One(task), workers, workerRef, analysisCountRef,
                  lastSuccessRef, task, cap)
        /\ UNCHANGED <<formatVars,
                       extractedText, hasValidResult, isFrontCamera, modalVars,
                       submitVars, phase, now, cameraVars, workerRef>>

\* await recognize returns text OCRTexts[n] for task: the lines are scanned
RecognizeReturns(task, n) ==
    /\ task.k = "rec"
    /\ Ready(task.w)
    /\ tasks' = tasks (-) One(task)
    /\ IF Extract(OCRTexts[n]) # EmptyText
       THEN /\ lastSuccessRef' = task.t
            /\ IF Mounted
               THEN /\ SetExtractedText(Extract(OCRTexts[n]))
                    /\ hasValidResult' = TRUE
                    /\ isAnalyzing' = FALSE
               ELSE UNCHANGED <<extractedText, submitVars, hasValidResult,
                                isAnalyzing>>
       ELSE UNCHANGED <<lastSuccessRef, extractedText, submitVars,
                        hasValidResult, isAnalyzing>>
    /\ UNCHANGED <<formatVars,
                   isFrontCamera, modalVars, phase, now, cameraVars, timers,
                   intervals, workerRef, workers, analysisCountRef,
                   watchdogFired>>

RecognizeDone ==
    \E task \in BagToSet(tasks), n \in DOMAIN OCRTexts : RecognizeReturns(task, n)

\* mutant: the catch leaves isAnalyzing as it is
RecognizeFailsKeepsFlag ==
    \E task \in BagToSet(tasks) :
        /\ task.k = "rec"
        /\ tasks' = tasks (-) One(task)
        /\ UNCHANGED <<formatVars, extractedText, isAnalyzing, hasValidResult,
                       isFrontCamera, modalVars, submitVars, phase, now,
                       cameraVars, timers, intervals, workerRef, workers,
                       analysisCountRef, lastSuccessRef, watchdogFired>>

\* recognize rejects: the catch of analyzeFrame
RecognizeFails ==
    \E task \in BagToSet(tasks) :
        /\ task.k = "rec"
        /\ tasks' = tasks (-) One(task)
        /\ isAnalyzing' = IF Mounted THEN FALSE ELSE isAnalyzing
        /\ UNCHANGED <<formatVars,
                       extractedText, hasValidResult, isFrontCamera, modalVars,
                       submitVars, phase, now, cameraVars, timers, intervals,
                       workerRef, workers, analysisCountRef, lastSuccessRef,
                       watchdogFired>>

\* ------------------------------------------------------------- the render
\* the text of the result zone at the bottom of the screen
ResultPanel ==
    IF hasValidResult THEN extractedText
    ELSE IF isAnalyzing THEN <<"Analyse en cours...">>
    ELSE <<"Preparation de l'analyse...">>

\* ----------------------------------------------------------- the handlers
\* the mount effect: initializeCamera(); initializeTesseract()
Mount ==
    /\ phase = "constructed"
    /\ phase' = "mounted"
    /\ InitializeCamera(hasValidResult, isFrontCamera)
    /\ tasks' = tasks (+) One(Task("create", 0, "mount", hasValidResult, 0))
    /\ UNCHANGED <<formatVars,
                   extractedText, isAnalyzing, hasValidResult, isFrontCamera,
                   modalVars, submitVars, now, timers, intervals, workerRef,
                   workers, analysisCountRef, lastSuccessRef, watchdogFired>>

\* the cleanup of the mount effect
Unmount ==
    /\ Mounted
    /\ phase' = "unmounted"
    /\ workers' = IF workerRef # 0 THEN [workers EXCEPT ![workerRef].dead = TRUE]
                  ELSE workers
    /\ UNCHANGED <<formatVars,
                   extractedText, isAnalyzing, hasValidResult, isFrontCamera,
                   modalVars, submitVars, now, cameraVars, timers, intervals,
                   workerRef, tasks, analysisCountRef, lastSuccessRef,
                   watchdogFired>>

\* a setTimeout callback runs
TimerFires ==
    \E t \in BagToSet(timers) :
        /\ timers' = timers (-) One(t)
        /\ IF t.fn = "initializeCamera"
           THEN /\ InitializeCamera(t.hv, t.front)
                /\ UNCHANGED <<isAnalyzing, intervals>>
           ELSE /\ StartAnalysis(t.hv)
                /\ UNCHANGED cameraVars
        /\ UNCHANGED <<formatVars,
                       extractedText, hasValidResult, isFrontCamera, modalVars,
                       submitVars, phase, now, ocrVars>>

\* the "Recommencer" button, rendered while hasValidResult
ResetAnalysis(cap) ==
    /\ Mounted
    /\ hasValidResult
    /\ hasValidResult' = FALSE
    /\ SetExtractedText(EmptyText)
    /\ isAnalyzing' = TRUE
    /\ ReinitializeWorker(tasks, workers, workerRef, "reset", hasValidResult, cap)
    /\ UNCHANGED <<formatVars,
                   isFrontCamera, modalVars, phase, now, cameraVars, timers,
                   intervals, workerRef, analysisCountRef, lastSuccessRef,
                   watchdogFired>>

\* onClose of the calendar modal
CloseModal(cap) ==
    /\ Mounted
    /\ isCalendarOpen
    /\ isCalendarOpen' = FALSE
    /\ day' = NoDay
    /\ hasValidResult' = FALSE
    /\ SetExtractedText(EmptyText)
    /\ isAnalyzing' = TRUE
    /\ ReinitializeWorker(tasks, workers, workerRef, "close", hasValidResult, cap)
    /\ UNCHANGED <<formatVars,
                   isFrontCamera, calendarEvents, phase, now, cameraVars, timers,
                   intervals, workerRef, analysisCountRef, lastSuccessRef,
                   watchdogFired>>

\* time passes
Advance(last) ==
    /\ now + TimeStep <= last
    /\ now' = now + TimeStep
    /\ UNCHANGED <<formatVars,
                   extractedText, isAnalyzing, hasValidResult, isFrontCamera,
                   modalVars, submitVars, phase, cameraVars, timers, intervals,
                   ocrVars>>

SpecCaps == [attempts |-> MaxAttempts, workers |-> MaxWorkers]
WatchdogCaps == [attempts |-> MaxCount, workers |-> MaxWatchdogWorkers]

Next ==
    \/ Mount
    \/ Unmount
    \/ ToggleCamera
    \/ TimerFires
    \/ GetUserMediaResolves
    \/ GetUserMediaRejects
    \/ AnalyzeLoop(SpecCaps)
    \/ TerminateDone
    \/ CreateWorkerDone
    \/ SetupDone
    \/ ParametersDone(SpecCaps)
    \/ SetupFails(SpecCaps)
    \/ RecognizeDone
    \/ RecognizeFails
    \/ ResetAnalysis(SpecCaps)
    \/ CloseModal(SpecCaps)
    \/ HttpResponse
    \/ Advance(TimeStep)

Spec == Init /\ [][Next]_vars

\* the sampling loop alone, with enough attempts and time for the watchdog
NextWatchdog ==
    \/ Mount
    \/ GetUserMediaResolves
    \/ AnalyzeLoop(WatchdogCaps)
    \/ TerminateDone
    \/ CreateWorkerDone
    \/ SetupDone
    \/ ParametersDone(WatchdogCaps)
    \/ SetupFails(WatchdogCaps)
    \/ RecognizeDone
    \/ RecognizeFails
    \/ Advance(MaxClock)

SpecWatchdog == Init /\ [][NextWatchdog]_vars

\* ------------------------------------------------- the scan of one line
\* every sequence over S of length at most n
RECURSIVE SeqsUpTo(_, _)
SeqsUpTo(S, n) ==
    IF n = 0 THEN {<< >>}
    ELSE LET shorter == SeqsUpTo(S, n - 1)
         IN  shorter \cup {Append(q, c) : q \in shorter, c \in S}

\* lines around the grammar: optional blanks, a leading letter, up to
\* MaxDigits digits or letters o, a dash or none, T, a final letter
Lines ==
    {pad \o <<m>> \o ds \o dash \o <<"T", k>> \o tail :
        pad \in {<< >>, <<" ">>},
        m \in {"M", "m"},
        ds \in SeqsUpTo({"0", "1", "2", "3", "5", "o", "O"}, MaxDigits),
        dash \in {<<"-">>, <<" ", "-">>, << >>},
        k \in {"D", "P", "X"},
        tail \in {<< >>, <<" ">>, <<"\t", "D">>}}

InitFormat ==
    /\ Constructed
    /\ line \in Lines
    /\ lineVerdict = "none"

\* analyzeFrame: preprocessText(line), then isValidFormat(processed)
TestLine ==
    /\ lineVerdict = "none"
    /\ lineVerdict' = IF isValidFormat(preprocessText(line)) THEN "valid" ELSE "invalid"
    /\ UNCHANGED <<componentVars, line>>

NextFormat == TestLine

SpecFormat == InitFormat /\ [][NextFormat]_vars

\* ------------------------------------------------------------ the claims
\* a call of kind k made by origin is pending after the step and was not before
Called(k, origin) ==
    \E x \in BagToSet(tasks') :
        /\ x.k = k
        /\ x.origin = origin
        /\ CopiesIn(x, tasks') > CopiesIn(x, tasks)

RecognizeInvoked == Called("rec", "tick")
WatchdogReinit == Called("term", "watchdog")

\* C1: while hasValidResult is true, no tick of a sampling interval captures a
\* frame and invokes recognize.
C1_NoSamplingAfterMatch == [][hasValidResult => ~RecognizeInvoked]_vars

\* C2: between two recognize calls the watchdog starts at most one worker
\* reinitialization.
C2_OneReinitialization == watchdogFired <= 1

\* C3: once a valid result is held, and once the component is unmounted, no
\* sampling interval is active.
C3_TimerCleared ==
    (hasValidResult \/ phase = "unmounted") => intervals = EmptyBag

\* C7: every text handed to sendToApi matches the token grammar.
C7_SubmitsOnlyTokens == sendArg = EmptyText \/ isValidFormat(sendArg)

\* a getUserMedia request is issued by the step
GetUserMediaCalled == BagCardinality(gum') > BagCardinality(gum)

\* C4: at every getUserMedia request the stream acquired last, if any, has its
\* tracks stopped.
C4_StopsBeforeRequest ==
    [][GetUserMediaCalled =>
          (Len(streams) > 0 => ~streams'[Len(streams)])]_vars

\* a request is pending behind a stopped stream while an interval samples
C4_Witness ==
    /\ BagCardinality(gum) > 0
    /\ Len(streams) > 0
    /\ ~streams[Len(streams)]
    /\ intervals # EmptyBag

\* every string of the grammar M<1-2 digits>-T{D|P}
GrammarTokens ==
    {<<"M", d, "-", "T", k>> : d \in Digits, k \in {"D", "P"}}
    \cup {Token(d[1], d[2], k) : d \in Digits \X Digits, k \in {"D", "P"}}

KnownRooms == {t \in GrammarTokens : getRoomId(t) # NullId}

\* C5: getRoomId knows 11 tokens (M01-TD is 12673, M13-TP is 62575) and is null
\* on other strings; no POST is pending for a text whose identifier is null,
\* and no POST carries the null identifier.
C5_UnknownRoomNotPosted ==
    /\ Cardinality(KnownRooms) = 11
    /\ getRoomId(Token("0", "1", "D")) = 12673
    /\ getRoomId(Token("1", "3", "P")) = 62575
    /\ getRoomId(ErrorText) = NullId
    /\ getRoomId(EmptyText) = NullId
    /\ getRoomId(sendArg) = NullId =>
          \A p \in BagToSet(posts) : p.salle[1].title # sendArg
    /\ \A p \in BagToSet(posts) : p.salle[1].id # NullId

\* sendToApi ran on the unmapped token M00-TP and nothing was posted
C5_Witness ==
    /\ sendArg = Token("0", "0", "P")
    /\ isLoading
    /\ posts = EmptyBag

\* the lines of text whose normalization matches the grammar
ValidLines(text) ==
    {i \in 1..Len(Split(text)) : isValidFormat(preprocessText(Split(text)[i]))}

Least(S) == CHOOSE x \in S : \A y \in S : x <= y

NormalizedLine(text, i) == preprocessText(Split(text)[i])

ExpectedPost(token) ==
    [salle |-> << [id |-> getRoomId(token),
                   title |-> token,
                   eventColor |-> IF token[Len(token)] = "P"
                                  THEN <<"#", "F", "F", "F", "F", "B", "F">>
                                  ELSE <<"#", "F", "F", "D", "7", "B", "0">>] >>]

\* token is extractedText after the step, and a POST of its payload is pending
\* unless it was extractedText already
Submitted(token) ==
    /\ extractedText' = token
    /\ extractedText # token => BagIn(ExpectedPost(token), posts')

\* C6 as stated: whichever line of the recognized text normalizes to a mapped
\* token, that token becomes extractedText and its payload is posted.
C6_AnyMappedLine ==
    [][\A task \in BagToSet(tasks), n \in DOMAIN OCRTexts :
          (Mounted /\ RecognizeReturns(task, n)) =>
              \A i \in ValidLines(OCRTexts[n]) :
                  getRoomId(NormalizedLine(OCRTexts[n], i)) # NullId =>
                      Submitted(NormalizedLine(OCRTexts[n], i))]_vars

\* C6 amended: when the FIRST line that matches the grammar normalizes to a
\* mapped token, that token becomes extractedText and its payload is posted
\* (M03-TP: 19393, '#FFFFBF'; M11-TD: 12674, '#FFD7B0').
C6_FirstMappedLine ==
    [][\A task \in BagToSet(tasks), n \in DOMAIN OCRTexts :
          (Mounted /\ RecognizeReturns(task, n) /\ ValidLines(OCRTexts[n]) # {}) =>
              LET token == NormalizedLine(OCRTexts[n], Least(ValidLines(OCRTexts[n])))
              IN  /\ getRoomId(token) # NullId => Submitted(token)
                  /\ OCRTexts[n] = TextNoiseM03 =>
                        /\ token = Token("0", "3", "P")
                        /\ ExpectedPost(token).salle[1].id = 19393
                  /\ OCRTexts[n] = TextM11 =>
                        /\ token = Token("1", "1", "D")
                        /\ ExpectedPost(token).salle[1].id = 12674]_vars

\* M03-TP was extracted and its POST is pending
C6_Witness ==
    /\ extractedText = Token("0", "3", "P")
    /\ hasValidResult
    /\ BagIn([salle |-> << [id |-> 19393, title |-> Token("0", "3", "P"),
                            eventColor |-> <<"#", "F", "F", "F", "F", "B", "F">>] >>],
             posts)

\* the click of toggleCamera, of resetAnalysis, of the modal's onClose
\* the reinitializations started for origin that have not returned
Pending(b, origin) ==
    BagCardinality([x \in {y \in BagToSet(b) : y.origin = origin} |-> b[x]])

ToggleStep == isFrontCamera' # isFrontCamera
ResetStep == Pending(tasks', "reset") > Pending(tasks, "reset")
CloseStep == Pending(tasks', "close") > Pending(tasks, "close")

\* the reinitialization awaited by resetAnalysis or onClose completes
ResetCompletes ==
    \E task \in BagToSet(tasks) :
        /\ task.origin \in {"reset", "close"}
        /\ ParametersReturn(task, SpecCaps)

\* the reinitialization awaited by resetAnalysis or onClose returns
ResetReturns ==
    \E task \in BagToSet(tasks) :
        /\ task.origin \in {"reset", "close"}
        /\ task.k \in {"create", "lang", "init", "params"}
        /\ tasks' = tasks (-) One(task)

AllFieldsInitial ==
    /\ ~isAnalyzing'
    /\ ~hasValidResult'
    /\ extractedText' = EmptyText
    /\ analysisCountRef' = 0
    /\ lastSuccessRef' = now

\* C8 as stated: when toggleCamera has run, and when resetAnalysis or onClose
\* has run to the return of its reinitialization, isAnalyzing and
\* hasValidResult are false, extractedText is empty, analysisCountRef is 0 and
\* lastSuccessRef is the current time.
C8_AllFieldsInitial ==
    [][(ToggleStep \/ ResetReturns) => AllFieldsInitial]_vars

\* C8 amended: the three handlers clear hasValidResult and extractedText at
\* once; toggleCamera sets isAnalyzing false and leaves the counters alone;
\* resetAnalysis and onClose set isAnalyzing true, and the counters are reset
\* when the reinitialization they await succeeds.
C8_ResetsFlagsAndText ==
    [][/\ (ToggleStep \/ ResetStep \/ CloseStep) =>
              /\ ~hasValidResult'
              /\ extractedText' = EmptyText
              /\ analysisCountRef' = analysisCountRef
              /\ lastSuccessRef' = lastSuccessRef
       /\ ToggleStep => ~isAnalyzing'
       /\ (ResetStep \/ CloseStep) => isAnalyzing'
       /\ ResetCompletes =>
              /\ analysisCountRef' = 0
              /\ lastSuccessRef' = now]_vars

\* resetAnalysis awaits its reinitialization after an attempt was counted
C8_Witness ==
    /\ \E task \in BagToSet(tasks) : task.origin = "reset"
    /\ isAnalyzing
    /\ ~hasValidResult
    /\ extractedText = EmptyText
    /\ analysisCountRef > 0

\* an analysis attempt: a frame reaches analyzeFrame, which either calls
\* recognize or has the watchdog reinitialize the worker
Attempt == RecognizeInvoked \/ WatchdogReinit

\* the attempt follows, in the same tick, a reinitialization by analyzeLoop
AfterLoopReinit ==
    \E task \in BagToSet(tasks) :
        task.origin = "loop" /\ ParametersReturn(task, WatchdogCaps)

\* a reinitialization of the watchdog returns, completes
WatchdogReturns == Pending(tasks', "watchdog") < Pending(tasks, "watchdog")
WatchdogCompletes ==
    \E task \in BagToSet(tasks) :
        task.origin = "watchdog" /\ ParametersReturn(task, WatchdogCaps)

\* each attempt counts one, and reinitializes instead of recognizing exactly
\* when more than 10 000 ms have passed and the count exceeds 20
CountsAndTriggers ==
    /\ Attempt =>
          /\ analysisCountRef' = (IF AfterLoopReinit THEN 0 ELSE analysisCountRef) + 1
          /\ WatchdogReinit <=>
                (now - lastSuccessRef' > 10000 /\ analysisCountRef' > 20)
    /\ WatchdogReinit =>
          /\ ~RecognizeInvoked
          /\ workers'[workerRef].dead

CountersReset ==
    /\ analysisCountRef' = 0
    /\ lastSuccessRef' = now
    /\ ~RecognizeInvoked

C10_FirstMatchWins ==
    [][\A task \in BagToSet(tasks), n \in DOMAIN OCRTexts :
          (Mounted /\ RecognizeReturns(task, n)) =>
              IF ValidLines(OCRTexts[n]) = {}
              THEN /\ extractedText' = extractedText
                   /\ hasValidResult' = hasValidResult
              ELSE /\ extractedText' =
                          NormalizedLine(OCRTexts[n], Least(ValidLines(OCRTexts[n])))
                   /\ hasValidResult']_vars

\* the first of two matching lines, M0O-TP, was extracted
C10_Witness ==
    /\ extractedText = Token("0", "0", "P")
    /\ hasValidResult
    /\ Cardinality(ValidLines(TextTwoTokens)) = 2

\* s with every o and O replaced by 0 and every whitespace character removed
RECURSIVE Squeezed(_)
Squeezed(s) ==
    IF s = << >> THEN << >>
    ELSE LET c == Head(s)
         IN  IF c \in {" ", "\t", "\n", "\r"} THEN Squeezed(Tail(s))
             ELSE <<IF c = "o" \/ c = "O" THEN "0" ELSE c>> \o Squeezed(Tail(s))

\* s is M, one or two digits, -T, then D or P, and nothing else
InGrammar(s) ==
    \E ds \in SeqsUpTo(Digits, 2) \ {<< >>}, k \in {"D", "P"} :
        s = <<"M">> \o ds \o <<"-", "T", k>>

\* C11: a line is found valid exactly when, with o and O replaced by 0 and
\* whitespace removed, it is M, one or two digits, -T, then D or P and nothing
\* else: m01-TP is not, M0O-TP is, M123-TD is not, ' M5-TP ' is.
C11_ValidIffGrammar ==
    lineVerdict # "none" =>
        /\ lineVerdict = "valid" <=> InGrammar(Squeezed(line))
        /\ line = <<"m", "0", "1", "-", "T", "P">> => lineVerdict = "invalid"
        /\ line = <<"M", "0", "O", "-", "T", "P">> => lineVerdict = "valid"
        /\ line = <<"M", "1", "2", "3", "-", "T", "D">> => lineVerdict = "invalid"
        /\ line = <<" ", "M", "5", "-", "T", "P", " ">> => lineVerdict = "valid"

\* ' M5-TP ' was tested and found valid
C11_Witness ==
    /\ line = <<" ", "M", "5", "-", "T", "P", " ">>
    /\ lineVerdict = "valid"

\* the timeout callback t of a toggleCamera runs: initializeCamera is called
ToggleTimerFires(t) ==
    /\ t.fn = "initializeCamera"
    /\ CopiesIn(t, timers') < CopiesIn(t, timers)

\* C12: the getUserMedia request that follows a toggleCamera asks for the
\* camera that toggle selected, the opposite of the one selected in the render
\* where the toggle ran.
C12_RequestsSelectedCamera ==
    [][\A t \in BagToSet(timers) :
          ToggleTimerFires(t) =>
              \E r \in BagToSet(gum') :
                  /\ CopiesIn(r, gum') > CopiesIn(r, gum)
                  /\ r.front = ~t.front]_vars

SubmissionFailure(r) == ~r.resolved \/ ~r.ok \/ r.body = "empty"

\* C14: when a submission fails, day, calendarEvents and isCalendarOpen are
\* left as they are, and isLoading is left true.
C14_FailureStoresNothing ==
    [][\A p \in BagToSet(posts), r \in Responses :
          (HttpReturns(p, r) /\ SubmissionFailure(r)) =>
              /\ UNCHANGED <<day, calendarEvents, isCalendarOpen>>
              /\ isLoading']_vars

\* C15: when getUserMedia rejects, the result zone of the mounted component
\* shows the error text.
C15_ErrorTextShown ==
    [][(GetUserMediaRejects /\ Mounted) => ResultPanel' = ErrorText]_vars

\* the recognize calls of b that have not returned
RecognizePending(b) ==
    BagCardinality([x \in {y \in BagToSet(b) : y.k = "rec"} |-> b[x]])

C17_OneInterval == BagCardinality(intervals) <= 1

\* C18: recognize is invoked on a worker that has completed loadLanguage,
\* initialize and setParameters and is not terminated.
C18_RecognizeOnReadyWorker ==
    [][\A x \in BagToSet(tasks') :
          (x.k = "rec" /\ CopiesIn(x, tasks') > CopiesIn(x, tasks)) =>
              /\ workers[x.w].ops = {"lang", "init", "params"}
              /\ ~workers[x.w].dead]_vars

\* the acquired streams whose tracks are not stopped
LiveStreams == {i \in DOMAIN streams : streams[i]}

\* C19: at most one acquired stream has unstopped tracks.
C19_OneLiveStream == Cardinality(LiveStreams) <= 1

\* C20: while the calendar modal is open, hasValidResult is true and
\* extractedText is the token whose POST returned the events displayed.
C20_ModalShowsCurrentToken ==
    isCalendarOpen => (hasValidResult /\ extractedText = calendarEvents)

\* the workers created and not terminated
LiveWorkers == {i \in DOMAIN workers : ~workers[i].dead}

\* C21: at most one worker is created and not terminated.
C21_OneLiveWorker == Cardinality(LiveWorkers) <= 1

=============================================================================
